---- MODULE Spec2Model ----
(***************************************************************************)
(* The tool-calling orchestration of the Smart City agent:                 *)
(*   client.py  call_tool, run_agent                                       *)
(*   server.py  the /tool/<name> routes and the /ask entry point           *)
(* Strings are sequences of word tokens, JSON values are tagged records,   *)
(* Python dicts are insertion-ordered sequences of key/value pairs.        *)
(***************************************************************************)
EXTENDS Integers, Sequences, FiniteSets, TLC

\* ---------------------------------------------------------------- bounds
MaxParts == 2
MaxWords == 3

\* ------------------------------------------------------------ JSON values
JNull == [t |-> "null", s |-> <<>>, items |-> <<>>, obj |-> <<>>]
JStr(s) == [t |-> "str", s |-> s, items |-> <<>>, obj |-> <<>>]
JList(xs) == [t |-> "list", s |-> <<>>, items |-> xs, obj |-> <<>>]
JObj(kvs) == [t |-> "obj", s |-> <<>>, items |-> <<>>, obj |-> kvs]
KV(k, v) == [k |-> k, v |-> v]

\* ------------------------------------------------- Python dict operations
DictHas(d, key) == \E i \in 1..Len(d) : d[i].k = key
DictIndex(d, key) == CHOOSE i \in 1..Len(d) : d[i].k = key
DictGet(d, key) == d[DictIndex(d, key)].v
\* d.setdefault(key, v): the first value stored under a key stays
DictSetKeepFirst(d, key, v) ==
    IF DictHas(d, key) THEN d ELSE Append(d, KV(key, v))

\* d[key] = v : an existing key keeps its position, a new key is appended
DictSet(d, key, v) ==
    IF DictHas(d, key)
    THEN [d EXCEPT ![DictIndex(d, key)] = KV(key, v)]
    ELSE Append(d, KV(key, v))

\* ------------------------------------------- Python operators on a value
\* `key in x`: dict -> key membership, list -> element membership,
\* str -> substring (a word of the string), None -> TypeError
InRaises(x) == x.t = "null"
InHolds(key, x) ==
    CASE x.t = "obj" -> DictHas(x.obj, key)
      [] x.t = "list" -> \E i \in 1..Len(x.items) : x.items[i] = JStr(<<key>>)
      [] x.t = "str" -> \E i \in 1..Len(x.s) : x.s[i] = key
      [] OTHER -> FALSE
\* x[key]: only a dict holding the key answers
SubscriptRaises(key, x) == ~(x.t = "obj" /\ DictHas(x.obj, key))
Subscript(key, x) == DictGet(x.obj, key)
\* x.get(key, default): only a dict has .get
GetRaises(x) == x.t # "obj"
Get(x, key, default) == IF DictHas(x.obj, key) THEN DictGet(x.obj, key) ELSE default
\* x[:n]: list and str slice, dict and None raise TypeError
SliceRaises(x) == x.t \notin {"list", "str"}
Slice(x, n) ==
    IF x.t = "list"
    THEN [i \in 1..(IF Len(x.items) < n THEN Len(x.items) ELSE n) |-> x.items[i]]
    ELSE [i \in 1..(IF Len(x.s) < n THEN Len(x.s) ELSE n) |-> JStr(<<x.s[i]>>)]
\* str(x) inside an f-string
PyStr(x) == IF x.t = "str" THEN x.s ELSE IF x.t = "null" THEN <<"None">> ELSE <<"<repr>">>

\* json.dumps: the token sequence of the serialized document
RECURSIVE Dumps(_), DumpsItems(_), DumpsPairs(_)
Dumps(x) ==
    CASE x.t = "null" -> <<"null">>
      [] x.t = "str" -> <<"\"">> \o x.s \o <<"\"">>
      [] x.t = "list" -> <<"[">> \o DumpsItems(x.items) \o <<"]">>
      [] OTHER -> <<"{">> \o DumpsPairs(x.obj) \o <<"}">>
DumpsItems(xs) ==
    IF xs = <<>> THEN <<>>
    ELSE IF Len(xs) = 1 THEN Dumps(xs[1])
    ELSE Dumps(xs[1]) \o <<",">> \o DumpsItems(Tail(xs))
DumpsPairs(d) ==
    IF d = <<>> THEN <<>>
    ELSE IF Len(d) = 1 THEN <<"\"", d[1].k, "\"", ":">> \o Dumps(d[1].v)
    ELSE <<"\"", d[1].k, "\"", ":">> \o Dumps(d[1].v) \o <<",">> \o DumpsPairs(Tail(d))

\* ------------------------------------------------------------- the query
\* The words a question is made of; a question is a sequence of words.
Words == {"translate", "Translated", "these", "to", "TO", "Spanish"}
RECURSIVE SeqsUpTo(_, _)
SeqsUpTo(S, n) ==
    IF n = 0 THEN {<<>>}
    ELSE LET shorter == SeqsUpTo(S, n - 1)
         IN shorter \cup {Append(q, w) : q \in {r \in shorter : Len(r) = n - 1}, w \in S}
AllQueries == SeqsUpTo(Words, MaxWords)
\* the questions put to /ask
SampleQueries ==
    {<<>>,
     <<"these">>,
     <<"these", "TO", "Spanish">>,
     <<"Translated">>,
     <<"translate", "these", "to">>,
     <<"translate", "these", "to", "Spanish">>,
     <<"to", "these", "Translated", "TO", "Spanish">>}
MockQueries == {<<>>, <<"translate", "these", "to", "Spanish">>, <<"these">>}

\* str.lower() on one word
LowerWord(w) ==
    CASE w = "Translated" -> "translated"
      [] w = "TO" -> "to"
      [] w = "Spanish" -> "spanish"
      [] OTHER -> w
\* user_query.lower().split()
LowerSplit(q) == [i \in 1..Len(q) |-> LowerWord(q[i])]
\* "translate" in <lower-cased word>
WordHasTranslate(w) == w \in {"translate", "translated"}
\* "translate" in user_query.lower()
MentionsTranslate(q) == \E i \in 1..Len(q) : WordHasTranslate(LowerWord(q[i]))

\* list.index(x): the first position holding x
RECURSIVE IndexFrom(_, _, _)
IndexFrom(ws, x, i) == IF ws[i] = x THEN i ELSE IndexFrom(ws, x, i + 1)
DefaultLang == "hindi"
\* the extraction with its bound check one too strict: a word right at the end of
\* the question is never taken
TargetLangStrict(q) ==
    LET words == LowerSplit(q)
        found == \E i \in 1..Len(words) : words[i] = "to"
        idx0 == IndexFrom(words, "to", 1)
    IN IF found /\ idx0 + 1 < Len(words) THEN words[idx0 + 1] ELSE DefaultLang

\* client.py 168-176
TargetLang(q) ==
    LET words == LowerSplit(q)
        found == \E i \in 1..Len(words) : words[i] = "to"
        idx0 == IndexFrom(words, "to", 1)
    IN IF found /\ idx0 + 1 <= Len(words) THEN words[idx0 + 1] ELSE DefaultLang

\* ------------------------------------------------------------- the tools
\* server.py registers one POST route per tool
RegisteredTools == {"geocode_location", "get_weather", "search_places", "translate_text"}
\* names the language model puts in a function_call: registered ones and one that is not
ProposedTools == {"get_weather", "search_places", "translate_text", "get_events"}
UnknownTools == ProposedTools \ RegisteredTools

\* arguments the model proposes, passed through uninterpreted
ArgsOf(tool) ==
    CASE tool = "search_places" ->
            JObj(<<KV("query", JStr(<<"coffee">>)), KV("location", JStr(<<"PSU">>))>>)
      [] tool = "translate_text" ->
            JObj(<<KV("text", JStr(<<"hello">>)), KV("target_lang", JStr(<<"es">>))>>)
      [] tool = "get_weather" ->
            JObj(<<KV("location", JStr(<<"Portland">>))>>)
      [] OTHER -> JObj(<<>>)

\* a part of the model's response: text, or a function_call
TextPart == [has_fc |-> FALSE, name |-> "", args |-> JObj(<<>>)]
FcPart(tool) == [has_fc |-> TRUE, name |-> tool, args |-> ArgsOf(tool)]
PartKinds == {TextPart} \cup {FcPart(n) : n \in ProposedTools}

\* ---------------------------------------- outcomes of requests.post(...)
Exc(msg) == [kind |-> "exc", msg |-> msg, is_json |-> FALSE, val |-> JNull]
Body(v) == [kind |-> "body", msg |-> <<>>, is_json |-> TRUE, val |-> v]
NonJsonBody == [kind |-> "body", msg |-> <<>>, is_json |-> FALSE, val |-> JNull]
ConnRefused == Exc(<<"Connection", "refused">>)
TimedOut == Exc(<<"Read", "timed", "out">>)
JsonDecodeMsg == <<"Expecting", "value:", "line", "1", "column", "1", "(char", "0)">>

\* search_places.py 91: Yelp is asked for at most 5 businesses
YelpLimit == 5
ErrObj(msg) == JObj(<<KV("error", JStr(msg))>>)
PlaceNames == <<"Coava", "Stumptown", "Heart", "Barista", "Either/Or", "Upper Left">>
Entity(i) == JObj(<<KV("name", JStr(<<PlaceNames[i]>>)), KV("rating", JStr(<<"4.5">>))>>)
NamelessEntity == JObj(<<KV("rating", JStr(<<"4.5">>))>>)
PlacesPayload(n) == JObj(<<KV("results", JList([i \in 1..n |-> Entity(i)]))>>)
GeocodePayload ==
    JObj(<<KV("display_name", JStr(<<"Portland,", "Oregon">>)),
           KV("lat", JStr(<<"45.5">>)), KV("lon", JStr(<<"-122.6">>))>>)
WeatherPayload ==
    JObj(<<KV("location", JStr(<<"Portland">>)), KV("weather", JStr(<<"broken", "clouds">>))>>)
TranslatedPayload(args) ==
    JObj(<<KV("translated_text",
              JStr(<<"(">> \o PyStr(Get(args, "target_lang", JNull)) \o <<")">>
                   \o PyStr(Get(args, "text", JNull))))>>)

\* what the tool's own function returns on success (server/tools/*.py)
SuccessBodies(tool, args) ==
    CASE tool = "geocode_location" -> {GeocodePayload}
      [] tool = "get_weather" -> {WeatherPayload}
      [] tool = "search_places" -> {PlacesPayload(n) : n \in 0..YelpLimit}
      [] tool = "translate_text" -> {TranslatedPayload(args)}
      [] OTHER -> {}
\* JSON bodies that are not the documented shape
OddBodies(tool) ==
    {JNull, JList(<<>>), JStr(<<"internal", "error">>)}
    \cup (IF tool = "search_places"
          THEN {JObj(<<KV("results", JNull)>>), JObj(<<KV("results", JList(<<NamelessEntity>>))>>)}
          ELSE IF tool = "translate_text" THEN {JObj(<<>>)} ELSE {})
\* every outcome of POST <base>/tool/<name>
AllResponses(tool, args) ==
    IF tool \in RegisteredTools
    THEN {ConnRefused, TimedOut, NonJsonBody, Body(ErrObj(<<"Location", "not", "found">>))}
         \cup {Body(v) : v \in SuccessBodies(tool, args)}
         \cup {Body(v) : v \in OddBodies(tool)}
    ELSE \* no route: Flask answers 404 with an HTML page
         {ConnRefused, TimedOut, NonJsonBody}
MockResponses(tool, args) ==
    IF tool \in RegisteredTools
    THEN {NonJsonBody, Body(JNull), Body(ErrObj(<<"Location", "not", "found">>))}
         \cup (IF tool = "search_places" THEN {Body(PlacesPayload(1))}
               ELSE {Body(v) : v \in SuccessBodies(tool, args)})
    ELSE {NonJsonBody}

\* call_tool without its try/except around response.json(): a body that does not
\* parse comes back as nothing at all
call_tool_uncaught(o) ==
    IF o.kind = "exc" THEN ErrObj(o.msg) ELSE o.val

\* client.py 36-52
call_tool(o) ==
    IF o.kind = "exc" THEN ErrObj(o.msg)
    ELSE IF ~o.is_json THEN ErrObj(JsonDecodeMsg)
    ELSE o.val

\* ------------------------------- outcomes of model.generate_content(...)
ModelText == <<"Portland", "is", "a", "city">>
ModelExc == [kind |-> "exc", parts |-> <<>>]
ModelResp(ps) == [kind |-> "resp", parts |-> ps]
AllModelResponses == {ModelExc} \cup {ModelResp(ps) : ps \in SeqsUpTo(PartKinds, MaxParts)}
MockModelResponses ==
    {ModelExc, ModelResp(<<TextPart>>), ModelResp(<<FcPart("get_weather")>>),
     ModelResp(<<FcPart("search_places")>>)}
\* response.text raises unless the response carries a text part
TextRaises(r) == r.kind = "exc" \/ ~(\E i \in 1..Len(r.parts) : ~r.parts[i].has_fc)

\* ------------------------------------------------------------------ state
VARIABLES
    pc,                 \* where the /ask handler and run_agent stand
    user_query,         \* the question handed to run_agent
    parts,              \* response.candidates[0].content.parts
    idx,                \* position of the `for part in parts` loop
    all_results,        \* the dict run_agent fills, in insertion order
    names_to_translate, \* client.py 165
    target_lang,        \* client.py 168-176
    translations,       \* client.py 178
    result,             \* how run_agent ended: returned a string or raised
    response,           \* what /ask sent back
    calls,              \* every call_tool made for this request, in order, with what
                        \* run_agent read from its output
    last_outcome,       \* the outcome of the latest requests.post
    model_calls,        \* number of generate_content calls of this request
    last_model,         \* the outcome of the latest generate_content
    last_tool_output,   \* run_agent.last_tool_output, <<>> while unset
    mocked,             \* TRUE: tools and model are deterministic mocks
    tool_memo,          \* responses the tool mock has given so far
    model_memo,         \* responses the model mock has given so far
    captured            \* an earlier request and its response, for comparison

vars == <<pc, user_query, parts, idx, all_results, names_to_translate, target_lang,
          translations, result, response, calls, last_outcome, model_calls,
          last_model, last_tool_output, mocked, tool_memo, model_memo, captured>>

request_vars == <<user_query, parts, idx, all_results, names_to_translate, target_lang,
                  translations, result, response, calls, last_outcome, model_calls,
                  last_model>>
env_vars == <<mocked, tool_memo, model_memo, captured>>

NoResult == [kind |-> "none", val |-> <<>>]
Returned(text) == [kind |-> "return", val |-> text]
Raised(text) == [kind |-> "raise", val |-> text]
NoResponse == [status |-> 0, key |-> "", text |-> <<>>]
NoOutcome == [kind |-> "none", msg |-> <<>>, is_json |-> FALSE, val |-> JNull]
\* /ask without its try/except: an exception of run_agent leaves no response
AskResponseUncaught(res) ==
    IF res.kind = "raise"
    THEN [status |-> 0, key |-> "", text |-> <<>>]
    ELSE [status |-> 200, key |-> "answer", text |-> res.val]

\* server.py 85-90: how /ask answers once run_agent has ended
AskResponse(res) ==
    IF res.kind = "raise"
    THEN [status |-> 500, key |-> "error", text |-> res.val]
    ELSE [status |-> 200, key |-> "answer", text |-> res.val]
\* run_agent ends with res and /ask answers
Finish(res) ==
    /\ result' = res
    /\ response' = AskResponse(res)
    /\ pc' = "responded"
Continue(at) ==
    /\ pc' = at
    /\ UNCHANGED <<result, response>>
NoCapture == [set |-> FALSE, query |-> <<>>, response |-> NoResponse]

\* ---------------------------------------------------- the environment
Queries == IF mocked THEN MockQueries ELSE SampleQueries
ToolResponses(tool, args) ==
    IF ~mocked THEN AllResponses(tool, args)
    ELSE LET given == {m \in tool_memo : m.tool = tool /\ m.args = args}
         IN IF given # {} THEN {m.out : m \in given} ELSE MockResponses(tool, args)
ToolMemo(tool, args, o) ==
    IF mocked THEN tool_memo \cup {[tool |-> tool, args |-> args, out |-> o]} ELSE tool_memo
ModelResponses(q) ==
    IF ~mocked THEN AllModelResponses
    ELSE LET given == {m \in model_memo : m.query = q}
         IN IF given # {} THEN {m.out : m \in given} ELSE MockModelResponses
ModelMemo(q, r) ==
    IF mocked THEN model_memo \cup {[query |-> q, out |-> r]} ELSE model_memo

\* ------------------------------------------------------- run_agent's text
Apology == <<"I", "am", "sorry,", "something", "went", "wrong", "->">>
FallbackMessage == <<"Sorry", "-", "I", "could", "not", "summarize", "the", "results.">>
ErrorSentinel == JStr(<<"[error]">>)
EmptyQuestion == <<"Question", "cannot", "be", "empty">>
TypeError == <<"TypeError">>
AttributeError == <<"AttributeError">>
KeyError == <<"KeyError">>
ModelError == <<"model", "call", "failed">>
\* places[:3]
FirstNames == 3

\* run_agent starting from the dict stashed by the request before
AllResultsStale == last_tool_output

\* client.py 134
AllResultsInit == <<>>

\* the test of client.py 191 left out: the dict is returned even when empty
HasResultsAlways(results) == TRUE

\* client.py 191: `if all_results:`
HasResults(results) == results # <<>>

\* the loop body without the early return: a failed output is stored like any other
PrimaryStepNoReturn(tool_output) ==
    IF InRaises(tool_output) THEN [act |-> "raise", val |-> TypeError]
    ELSE [act |-> "store", val |-> <<>>]

\* client.py 155-159: what the loop body does with one tool_output
PrimaryStep(tool_output) ==
    IF InRaises(tool_output) THEN [act |-> "raise", val |-> TypeError]
    ELSE IF InHolds("error", tool_output)
    THEN IF SubscriptRaises("error", tool_output)
         THEN [act |-> "raise", val |-> TypeError]
         ELSE [act |-> "return", val |-> Apology \o PyStr(Subscript("error", tool_output))]
    ELSE [act |-> "store", val |-> <<>>]

\* the trigger without its test of the question
ChainTriggerAnyQuery(results, q) == DictHas(results, "search_places")

\* client.py 162
ChainTrigger(results, q) == DictHas(results, "search_places") /\ MentionsTranslate(q)

\* client.py 164-165: the names to translate, or the exception raised on the way
ChainNames(results) ==
    LET sp == DictGet(results, "search_places")
        places == Get(sp, "results", JList(<<>>))
        first == Slice(places, FirstNames)
    IN IF GetRaises(sp) THEN [exc |-> AttributeError, names |-> <<>>]
       ELSE IF SliceRaises(places) THEN [exc |-> TypeError, names |-> <<>>]
       ELSE IF \E i \in 1..Len(first) : first[i].t # "obj"
       THEN [exc |-> TypeError, names |-> <<>>]
       ELSE IF \E i \in 1..Len(first) : SubscriptRaises("name", first[i])
       THEN [exc |-> KeyError, names |-> <<>>]
       ELSE [exc |-> <<>>, names |-> [i \in 1..Len(first) |-> Subscript("name", first[i])]]

\* client.py 181
TranslatePayload(name, lang) == JObj(<<KV("text", name), KV("target_lang", JStr(<<lang>>))>>)
\* client.py 183-186
TranslationRecord(name, t_out) ==
    JObj(<<KV("original", name), KV("translated", Get(t_out, "translated_text", ErrorSentinel))>>)

\* ------------------------------------------------------------------ Init
InitRequest ==
    /\ pc = "idle"
    /\ user_query = <<>>
    /\ parts = <<>>
    /\ idx = 1
    /\ all_results = <<>>
    /\ names_to_translate = <<>>
    /\ target_lang = ""
    /\ translations = <<>>
    /\ result = NoResult
    /\ response = NoResponse
    /\ calls = <<>>
    /\ last_outcome = NoOutcome
    /\ model_calls = 0
    /\ last_model = ModelExc
    /\ last_tool_output = <<>>
    /\ tool_memo = {}
    /\ model_memo = {}
    /\ captured = NoCapture

Init == InitRequest /\ mocked = FALSE
\* any question, about to have its target language extracted
InitLang ==
    /\ pc = "extract"
    /\ user_query \in AllQueries
    /\ parts = <<>>
    /\ idx = 1
    /\ all_results = <<>>
    /\ names_to_translate = <<>>
    /\ target_lang = ""
    /\ translations = <<>>
    /\ result = NoResult
    /\ response = NoResponse
    /\ calls = <<>>
    /\ last_outcome = NoOutcome
    /\ model_calls = 0
    /\ last_model = ModelExc
    /\ last_tool_output = <<>>
    /\ tool_memo = {}
    /\ model_memo = {}
    /\ captured = NoCapture
    /\ mocked = FALSE
InitMocked == InitRequest /\ mocked = TRUE

\* --------------------------------------------------------------- actions
\* server.py 75-85: /ask receives a question
Ask ==
    /\ pc = "idle"
    /\ \E q \in Queries :
         /\ user_query' = q
         /\ IF q = <<>>
            THEN /\ response' = [status |-> 400, key |-> "error", text |-> EmptyQuestion]
                 /\ pc' = "responded"
            ELSE /\ response' = response
                 /\ pc' = "first_model_call"
    /\ UNCHANGED <<parts, idx, all_results, names_to_translate, target_lang, translations,
                   result, calls, last_outcome, model_calls, last_model, last_tool_output, env_vars>>

\* client.py 131-134
FirstModelCall ==
    /\ pc = "first_model_call"
    /\ \E r \in ModelResponses(user_query) :
         /\ model_memo' = ModelMemo(user_query, r)
         /\ last_model' = r
         /\ IF r.kind = "exc"
            THEN /\ Finish(Raised(ModelError))
                 /\ UNCHANGED <<parts, all_results>>
            ELSE /\ parts' = r.parts
                 /\ all_results' = AllResultsInit
                 /\ Continue("primary")
    /\ model_calls' = model_calls + 1
    /\ idx' = 1
    /\ UNCHANGED <<user_query, names_to_translate, target_lang, translations,
                   calls, last_outcome, last_tool_output, mocked, tool_memo, captured>>

\* client.py 137-140: a part without function_call is skipped
SkipPart ==
    /\ pc = "primary"
    /\ idx <= Len(parts)
    /\ ~parts[idx].has_fc
    /\ idx' = idx + 1
    /\ UNCHANGED <<pc, user_query, parts, all_results, names_to_translate, target_lang,
                   translations, result, response, calls, last_outcome, model_calls, last_model,
                   last_tool_output, env_vars>>

\* client.py 142-159: one primary invocation
CallPrimary ==
    /\ pc = "primary"
    /\ idx <= Len(parts)
    /\ parts[idx].has_fc
    /\ LET tool_name == parts[idx].name
           args == parts[idx].args
       IN \E o \in ToolResponses(tool_name, args) :
            LET tool_output == call_tool(o)
                step == PrimaryStep(tool_output)
            IN /\ calls' = Append(calls, [tool |-> tool_name, args |-> args, phase |-> "primary",
                                          out |-> tool_output])
               /\ last_outcome' = o
               /\ tool_memo' = ToolMemo(tool_name, args, o)
               /\ CASE step.act = "raise" ->
                         /\ Finish(Raised(step.val))
                         /\ UNCHANGED <<idx, all_results>>
                    [] step.act = "return" ->
                         /\ Finish(Returned(step.val))
                         /\ UNCHANGED <<idx, all_results>>
                    [] OTHER ->
                         /\ all_results' = DictSet(all_results, tool_name, tool_output)
                         /\ idx' = idx + 1
                         /\ Continue("primary")
    /\ UNCHANGED <<user_query, parts, names_to_translate, target_lang, translations,
                   model_calls, last_model, last_tool_output, mocked, model_memo, captured>>

\* client.py 162-178: the loop is over; decide whether to chain
ChainStart ==
    /\ pc = "primary"
    /\ idx > Len(parts)
    /\ IF ~ChainTrigger(all_results, user_query)
       THEN /\ Continue("return")
            /\ UNCHANGED <<names_to_translate, target_lang>>
       ELSE LET got == ChainNames(all_results)
            IN IF got.exc # <<>>
               THEN /\ Finish(Raised(got.exc))
                    /\ UNCHANGED <<names_to_translate, target_lang>>
               ELSE /\ names_to_translate' = got.names
                    /\ target_lang' = TargetLang(user_query)
                    /\ Continue("chain")
    /\ UNCHANGED <<user_query, parts, idx, all_results, translations, calls,
                   last_outcome, model_calls, last_model, last_tool_output, env_vars>>

\* client.py 180-186: one chained translate_text invocation
CallTranslate ==
    /\ pc = "chain"
    /\ Len(translations) < Len(names_to_translate)
    /\ LET name == names_to_translate[Len(translations) + 1]
           payload == TranslatePayload(name, target_lang)
       IN \E o \in ToolResponses("translate_text", payload) :
            LET t_out == call_tool(o)
            IN /\ calls' = Append(calls, [tool |-> "translate_text", args |-> payload,
                                          phase |-> "chained",
                                          out |-> IF GetRaises(t_out) THEN JNull
                                                  ELSE Get(t_out, "translated_text", ErrorSentinel)])
               /\ last_outcome' = o
               /\ tool_memo' = ToolMemo("translate_text", payload, o)
               /\ IF GetRaises(t_out)
                  THEN /\ Finish(Raised(AttributeError))
                       /\ UNCHANGED translations
                  ELSE /\ translations' = Append(translations, TranslationRecord(name, t_out))
                       /\ Continue("chain")
    /\ UNCHANGED <<user_query, parts, idx, all_results, names_to_translate, target_lang,
                   model_calls, last_model, last_tool_output, mocked, model_memo, captured>>

\* client.py 188
AttachTranslations ==
    /\ pc = "chain"
    /\ Len(translations) = Len(names_to_translate)
    /\ all_results' = DictSet(all_results, "translations", JList(translations))
    /\ pc' = "return"
    /\ UNCHANGED <<user_query, parts, idx, names_to_translate, target_lang, translations,
                   result, response, calls, last_outcome, model_calls, last_model, last_tool_output,
                   env_vars>>

\* client.py 191-193
ReturnResults ==
    /\ pc = "return"
    /\ HasResults(all_results)
    /\ last_tool_output' = all_results
    /\ Finish(Returned(Dumps(JObj(all_results))))
    /\ UNCHANGED <<user_query, parts, idx, all_results, names_to_translate, target_lang,
                   translations, calls, last_outcome, model_calls, last_model, env_vars>>

\* client.py 196-200
SecondModelCall ==
    /\ pc = "return"
    /\ ~HasResults(all_results)
    /\ \E r \in ModelResponses(user_query) :
         /\ model_memo' = ModelMemo(user_query, r)
         /\ last_model' = r
         /\ Finish(Returned(IF TextRaises(r) THEN FallbackMessage ELSE ModelText))
    /\ model_calls' = model_calls + 1
    /\ UNCHANGED <<user_query, parts, idx, all_results, names_to_translate, target_lang,
                   translations, calls, last_outcome, last_tool_output,
                   mocked, tool_memo, captured>>

\* the process stays up and takes the next request; run_agent's locals are gone,
\* the attribute stashed on the function stays
NextRequest ==
    /\ pc = "responded"
    /\ pc' = "idle"
    /\ user_query' = <<>>
    /\ parts' = <<>>
    /\ idx' = 1
    /\ all_results' = <<>>
    /\ names_to_translate' = <<>>
    /\ target_lang' = ""
    /\ translations' = <<>>
    /\ result' = NoResult
    /\ response' = NoResponse
    /\ calls' = <<>>
    /\ last_outcome' = NoOutcome
    /\ model_calls' = 0
    /\ last_model' = ModelExc
    /\ \/ captured' = captured
       \/ /\ ~captured.set
          /\ captured' = [set |-> TRUE, query |-> user_query, response |-> response]
    /\ UNCHANGED <<last_tool_output, mocked, tool_memo, model_memo>>

Next ==
    \/ Ask
    \/ FirstModelCall
    \/ SkipPart
    \/ CallPrimary
    \/ ChainStart
    \/ CallTranslate
    \/ AttachTranslations
    \/ ReturnResults
    \/ SecondModelCall

NextMocked == Next \/ NextRequest

\* client.py 168-176 on its own
ExtractTarget ==
    /\ pc = "extract"
    /\ target_lang' = TargetLang(user_query)
    /\ pc' = "extracted"
    /\ UNCHANGED <<user_query, parts, idx, all_results, names_to_translate, translations,
                   result, response, calls, last_outcome, model_calls, last_model, last_tool_output,
                   env_vars>>
NextLang == ExtractTarget

\* one request against arbitrary tools and model
Spec == Init /\ [][Next]_vars
\* a sequence of requests against deterministic mocks
SpecMocked == InitMocked /\ [][NextMocked]_vars
\* the target-language extraction over every question of at most MaxWords words
SpecLang == InitLang /\ [][NextLang]_vars

\* ================================================================ claims
Last(seq) == seq[Len(seq)]
\* a Failure: a response carrying an "error" entry
IsFailure(x) == x.t = "obj" /\ \E i \in 1..Len(x.obj) : x.obj[i].k = "error"
FailureMessage(x) == (CHOOSE kv \in {x.obj[i] : i \in 1..Len(x.obj)} : kv.k = "error").v.s
\* the function_call parts among the first n parts
RECURSIVE FcCount(_, _)
FcCount(ps, n) == IF n = 0 THEN 0 ELSE FcCount(ps, n - 1) + (IF ps[n].has_fc THEN 1 ELSE 0)
PrimaryCalls == SelectSeq(calls, LAMBDA c : c.phase = "primary")
ChainedCalls == SelectSeq(calls, LAMBDA c : c.phase = "chained")
LastCallIs(phase) == calls # <<>> /\ Last(calls).phase = phase
Contains(text, word) == \E i \in 1..Len(text) : text[i] = word

\* C1: once a primary invocation's result is a Failure, the request is over: the
\* invocation that failed is the last call ever made (the calls made are exactly
\* the function calls up to and including it, none of them chained), and run_agent
\* has returned the apology followed by that failure's message and nothing else.
C1_ShortCircuit ==
    (LastCallIs("primary") /\ IsFailure(call_tool(last_outcome)))
        => /\ pc = "responded"
           /\ result = Returned(Apology \o FailureMessage(call_tool(last_outcome)))
           /\ idx <= Len(parts) /\ parts[idx].has_fc
           /\ Len(calls) = FcCount(parts, idx)
           /\ ChainedCalls = <<>>
           /\ ~(ENABLED Next)

\* C1 witness: the first of two proposed invocations failed and the second never ran
C1_Witness ==
    /\ Len(parts) = 2 /\ parts[1].has_fc /\ parts[2].has_fc
    /\ Len(calls) = 1
    /\ last_outcome = Body(ErrObj(<<"Location", "not", "found">>))
    /\ pc = "responded"
    /\ result.kind = "return"

Abnormal(o) == o.kind = "exc" \/ ~o.is_json \/ o.val.t # "obj"

\* C3 (as stated): whatever the external call of a primary invocation does
\* (connection error, timeout, non-JSON body, JSON that is not an object), the
\* outcome becomes a Failure and run_agent raises nothing.
C3_OutcomesNormalized ==
    (LastCallIs("primary") /\ Abnormal(last_outcome))
        => /\ IsFailure(call_tool(last_outcome))
           /\ result.kind # "raise"

\* C3 evidence: the tool endpoint answered with the JSON value null
C3_NullBodyRaises ==
    /\ LastCallIs("primary")
    /\ last_outcome = Body(JNull)
    /\ result = Raised(TypeError)

\* the loop over the parts ran to its end: every primary invocation succeeded
PrimariesDone == pc # "idle" /\ pc # "first_model_call" /\ result # Raised(ModelError)
                 /\ idx > Len(parts)
\* the entities of the aggregated search_places result, when it is a list of named entities
PlacesAreNamed ==
    /\ DictHas(all_results, "search_places")
    /\ LET sp == DictGet(all_results, "search_places")
       IN /\ sp.t = "obj"
          /\ \E i \in 1..Len(sp.obj) :
               /\ sp.obj[i].k = "results"
               /\ sp.obj[i].v.t = "list"
               /\ \A j \in 1..Len(sp.obj[i].v.items) :
                    /\ sp.obj[i].v.items[j].t = "obj"
                    /\ \E n \in 1..Len(sp.obj[i].v.items[j].obj) :
                         sp.obj[i].v.items[j].obj[n].k = "name"
PlaceEntities == DictGet(DictGet(all_results, "search_places").obj, "results").items
NameOf(entity) == DictGet(entity.obj, "name")
Min(a, b) == IF a < b THEN a ELSE b

\* C4 (as stated): when the question mentions "translate" and every primary
\* succeeded with a search_places result of n entities, the request ends with
\* exactly min(3, n) chained translate_text calls, the i-th for the i-th entity's
\* name, all with the extracted or default target language.
C4_ChainCalls ==
    (pc = "responded" /\ PrimariesDone /\ MentionsTranslate(user_query) /\ PlacesAreNamed)
        => /\ Len(ChainedCalls) = Min(3, Len(PlaceEntities))
           /\ \A i \in 1..Len(ChainedCalls) :
                /\ ChainedCalls[i].tool = "translate_text"
                /\ ChainedCalls[i].args =
                     JObj(<<KV("text", NameOf(PlaceEntities[i])),
                            KV("target_lang", JStr(<<TargetLang(user_query)>>))>>)

\* the target language as the rule words it: the word after the first "to" of the
\* lower-cased words when there is one, "hindi" otherwise
ToPositions(ws) == {i \in 1..Len(ws) : ws[i] = "to"}
FirstTo(ws) == CHOOSE i \in ToPositions(ws) : \A j \in ToPositions(ws) : i <= j
RuleTarget(q) ==
    LET ws == [i \in 1..Len(q) |-> LowerWord(q[i])]
    IN IF ToPositions(ws) = {} THEN "hindi"
       ELSE IF FirstTo(ws) = Len(ws) THEN "hindi"
       ELSE ws[FirstTo(ws) + 1]

\* C5: the extraction answers for every question: the word following "to" (its
\* first occurrence, among the lower-cased words) when "to" is there and is not
\* the last word, and "hindi" when "to" is absent or last; in particular
\* "translate these to spanish" gives "spanish", "translate these" and
\* "translate to" give "hindi".
C5_TargetLanguage ==
    pc = "extracted"
        => /\ target_lang = RuleTarget(user_query)
           /\ (user_query = <<"translate", "these", "to", "Spanish">> => target_lang = "spanish")
           /\ (user_query = <<"translate", "these">> => target_lang = "hindi")
           /\ (user_query = <<"translate", "to">> => target_lang = "hindi")

\* C5 witness: a question whose "to" is followed by a word written in capitals
C5_Witness ==
    /\ pc = "extracted"
    /\ user_query = <<"translate", "TO", "Spanish">>
    /\ target_lang = "spanish"

\* a chained call that did not bring a translation: error response, transport
\* error, or a response that is not the documented object
TranslateFailed(o) == Abnormal(o) \/ IsFailure(o.val) \/ o.val = JObj(<<>>)

\* C6 (as stated): a failed chained translate_text call costs only its own
\* entity: its record is {original, "[error]"}, nothing is raised, and the
\* request ends with the serialized results holding one record per selected entity.
C6_TranslationIsolated ==
    (LastCallIs("chained") /\ TranslateFailed(last_outcome))
        => /\ result.kind # "raise"
           /\ Len(translations) = Len(ChainedCalls)
           /\ Last(translations) =
                JObj(<<KV("original", names_to_translate[Len(translations)]),
                       KV("translated", JStr(<<"[error]">>))>>)
           /\ (pc = "responded"
                 => /\ result = Returned(Dumps(JObj(all_results)))
                    /\ DictHas(all_results, "translations")
                    /\ Len(DictGet(all_results, "translations").items) = Len(names_to_translate))

\* C6 evidence: the translation endpoint answered the first name with JSON null
C6_NullTranslationRaises ==
    /\ LastCallIs("chained")
    /\ last_outcome = Body(JNull)
    /\ result = Raised(AttributeError)

\* C7 (as stated): every non-empty question is answered {"answer": <string>}.
C7_AlwaysAnswer ==
    (pc = "responded" /\ user_query # <<>>) => response.key = "answer"

\* C7 (amended): every non-empty question gets a response: {"answer": <what
\* run_agent returned>} with status 200 when run_agent returns, and
\* {"error": <the exception's text>} with status 500 when it raises.
C7_AnswerOrError ==
    /\ (pc = "responded" /\ user_query # <<>>)
          => \/ /\ result.kind = "return"
                /\ response = [status |-> 200, key |-> "answer", text |-> result.val]
             \/ /\ result.kind = "raise"
                /\ response = [status |-> 500, key |-> "error", text |-> result.val]
    /\ (result.kind # "none" => pc = "responded")

\* C7 witness: the first model call failed and /ask answered with the error
C7_Witness ==
    /\ pc = "responded"
    /\ user_query # <<>>
    /\ model_calls = 1
    /\ last_model = ModelExc
    /\ response = [status |-> 500, key |-> "error", text |-> ModelError]

NoToolProposed == \A i \in 1..Len(parts) : ~parts[i].has_fc
HasTextPart(r) == r.kind = "resp" /\ \E i \in 1..Len(r.parts) : ~r.parts[i].has_fc

\* C8: a request whose first model response proposes no tool ends after exactly
\* two model calls, with the second response's text, or with the fixed message
\* when the second call fails; a request with a proposed tool never makes a
\* second model call.
C8_SecondRoundTrip ==
    /\ model_calls <= 2
    /\ (model_calls = 2 => NoToolProposed)
    /\ (pc = "responded" /\ user_query # <<>> /\ result # Raised(ModelError) /\ NoToolProposed)
          => /\ model_calls = 2
             /\ calls = <<>>
             /\ (HasTextPart(last_model) => result = Returned(ModelText))
             /\ (last_model.kind = "exc" => result = Returned(FallbackMessage))

\* C8 witness: no tool proposed and the second model call failed
C8_Witness ==
    /\ pc = "responded"
    /\ parts = <<TextPart>>
    /\ model_calls = 2
    /\ last_model = ModelExc
    /\ result = Returned(FallbackMessage)

\* C9: with deterministic tools and model, a question asked again gets the very
\* response it got before, whatever was asked in between and whatever
\* run_agent.last_tool_output holds by then.
C9_SameQuerySameResponse ==
    (pc = "responded" /\ captured.set /\ captured.query = user_query)
        => response = captured.response

\* C9 witness: a question answered in free text is asked again after another
\* request has left its results in run_agent.last_tool_output
C9_Witness ==
    /\ pc = "responded"
    /\ captured.set
    /\ captured.query = user_query
    /\ user_query # <<>>
    /\ result = Returned(ModelText)
    /\ last_tool_output # <<>>

\* C10: chained calls come only once the loop over the primaries has ended with
\* every proposed invocation executed and stored, only with a search_places
\* result aggregated and a question mentioning "translate"; no primary call
\* follows a chained one; there are never more chained calls than selected names,
\* and no "translations" entry without the trigger.
C10_ChainAfterPrimaries ==
    /\ (ChainedCalls # <<>> \/ pc = "chain" \/ DictHas(all_results, "translations"))
          => /\ idx > Len(parts)
             /\ Len(PrimaryCalls) = FcCount(parts, Len(parts))
             /\ \A i \in 1..Len(parts) : parts[i].has_fc => DictHas(all_results, parts[i].name)
             /\ DictHas(all_results, "search_places")
             /\ MentionsTranslate(user_query)
    /\ \A i \in 1..Len(calls) : \A j \in 1..Len(calls) :
          (i < j /\ calls[i].phase = "chained") => calls[j].phase = "chained"
    /\ Len(ChainedCalls) <= Len(names_to_translate)
    /\ Len(names_to_translate) <= FirstNames

\* C10 witness: a primary translate_text call, then search_places, then chained calls
C10_Witness ==
    /\ Len(calls) = 4
    /\ calls[1].tool = "translate_text" /\ calls[1].phase = "primary"
    /\ calls[2].tool = "search_places"
    /\ calls[3].phase = "chained" /\ calls[4].phase = "chained"
    /\ pc = "responded"
    /\ DictHas(all_results, "translations")

\* the tool names of the primary calls, and the last primary call of a name
PrimaryNames == {PrimaryCalls[i].tool : i \in 1..Len(PrimaryCalls)}
LastPrimary(name) ==
    PrimaryCalls[CHOOSE i \in 1..Len(PrimaryCalls) :
                    /\ PrimaryCalls[i].tool = name
                    /\ \A j \in 1..Len(PrimaryCalls) : PrimaryCalls[j].tool = name => j <= i]
DocKeys(d) == {d[i].k : i \in 1..Len(d)}
\* run_agent returned the serialized results
DocumentReturned == pc = "responded" /\ result.kind = "return" /\ PrimariesDone /\ calls # <<>>

\* C11: when every primary invocation succeeded and the document is returned, it
\* is the serialization of a mapping with exactly one entry per distinct proposed
\* tool name, holding the output of the last invocation of that name, plus a
\* "translations" entry exactly when chaining fired, holding the translation
\* records; and the chained calls always translate the names of the last
\* search_places invocation's result, in order.
C11_LastResultPerName ==
    /\ DocumentReturned
          => LET names == PrimaryNames
                 last == [n \in names |-> LastPrimary(n).out]
             IN /\ result.val = Dumps(JObj(all_results))
                /\ DocKeys(all_results) \ {"translations"} = names
                /\ \A i \in 1..Len(all_results) : \A j \in 1..Len(all_results) :
                      all_results[i].k = all_results[j].k => i = j
                /\ \A n \in names :
                      \E i \in 1..Len(all_results) :
                         all_results[i].k = n /\ all_results[i].v = last[n]
                /\ ("translations" \in DocKeys(all_results))
                      <=> ("search_places" \in names /\ MentionsTranslate(user_query))
                /\ \A i \in 1..Len(all_results) :
                      all_results[i].k = "translations" => all_results[i].v = JList(translations)
    /\ LastCallIs("chained")
          => LET chained == ChainedCalls
                 entities == DictGet(LastPrimary("search_places").out.obj, "results").items
             IN \A i \in 1..Len(chained) :
                   chained[i].args.obj[1] = KV("text", NameOf(entities[i]))

\* C11 witness: search_places proposed twice, one entity the first time and two
\* the second; the document has the second result and both its names were translated
C11_Witness ==
    /\ DocumentReturned
    /\ Len(PrimaryCalls) = 2
    /\ PrimaryCalls[1].tool = "search_places" /\ PrimaryCalls[1].out = PlacesPayload(1)
    /\ PrimaryCalls[2].tool = "search_places" /\ PrimaryCalls[2].out = PlacesPayload(2)
    /\ Len(all_results) = 2
    /\ Len(ChainedCalls) = 2
    /\ ChainedCalls[2].args.obj[1] = KV("text", JStr(<<"Stumptown">>))

====
